---- MODULE Spec2Model ----
(***************************************************************************)
(* State-machine model of the DALI interface drivers.                      *)
(*                                                                         *)
(*   driver = "usb"    : src/dali_interface.py (base) + src/hid.py         *)
(*   driver = "serial" : src/source/dali_interface.py (base)               *)
(*                       + src/source/serial.py                            *)
(*                                                                         *)
(* Two threads act on one driver object: the background reader             *)
(* (__read_worker_thread, variable thread) and one caller thread (the      *)
(* constructor followed by API calls, variables pc and stack).  Every      *)
(* action is one atomic step of one of the two threads.                    *)
(***************************************************************************)
EXTENDS Integers, Sequences, FiniteSets, TLC

(* ------------------------------------------------------------------ *)
(* DaliStatus (src/status.py)                                          *)
(* ------------------------------------------------------------------ *)
OK == 0
LOOPBACK == 1
FRAME == 2
TIMEOUT == 3
TIMING == 4
INTERFACE == 5
FAILURE == 6
RECOVER == 7
GENERAL == 8
UNDEFINED == 9

(* ------------------------------------------------------------------ *)
(* Bounds of the model                                                 *)
(* ------------------------------------------------------------------ *)
\* capacity of the frame queue (constructor argument max_queue_size)
max_queue_size == 2
\* number of frames the reader thread enqueues in one run
MaxFrames == 3
\* number of USB transmit calls in one run of Spec
MaxTransmits == 2

(* ------------------------------------------------------------------ *)
(* Python values                                                       *)
(* ------------------------------------------------------------------ *)
\* Python's None, where an int or a float is expected otherwise
None == -1
\* DaliInterface.RECEIVE_TIMEOUT
RECEIVE_TIMEOUT == 1

Min(a, b) == IF a < b THEN a ELSE b
Max(a, b) == IF a > b THEN a ELSE b

(* ------------------------------------------------------------------ *)
(* Frames.  n is a ghost field: the ordinal of the enqueue that put    *)
(* the frame into the queue (0 for a frame no enqueue produced).       *)
(* timestamp is kept in milliseconds (serial) and is 0 for USB frames, *)
(* whose time.time() reading is not modelled.                          *)
(* ------------------------------------------------------------------ *)
DaliFrame(timestamp, length, data, status, message) ==
  [n |-> 0, timestamp |-> timestamp, length |-> length, data |-> data,
   status |-> status, message |-> message]

\* a message: the text, and the values an f-string formats into it
Msg(text) == [text |-> text, args |-> <<>>]
MsgF(text, args) == [text |-> text, args |-> args]

NoFrame == DaliFrame(0, 0, 0, OK, Msg(""))

\* what a call hands back to its caller: a frame, nothing, or an exception
RetFrame(f) == [exc |-> "", frame |-> f, none |-> FALSE]
RetNone == [exc |-> "", frame |-> NoFrame, none |-> TRUE]
RetRaise(e) == [exc |-> e, frame |-> NoFrame, none |-> FALSE]

\* the frame get() builds on queue.Empty
TimeoutFrame ==
  DaliFrame(0, 0, 0, TIMEOUT, Msg("queue is empty, timeout from get"))

(* ------------------------------------------------------------------ *)
(* USB input reports (src/hid.py, read_data)                           *)
(* ------------------------------------------------------------------ *)
_USB_READ_TYPE_NO_FRAME == 113
_USB_READ_TYPE_8BIT == 114
_USB_READ_TYPE_16BIT == 115
_USB_READ_TYPE_24BIT == 118
_USB_READ_TYPE_INFO == 119
_USB_READ_TYPE_32BIT == 126
_USB_STATUS_FRAME_ERROR == 3
_USB_STATUS_OK == 4

\* an input report: bytes 0..8 of the 64 read, indexed as in the source
Report(read_type, b2, b3, b4, b5, seq) ==
  [i \in 0..8 |-> CASE i = 1 -> read_type
                    [] i = 2 -> b2
                    [] i = 3 -> b3
                    [] i = 4 -> b4
                    [] i = 5 -> b5
                    [] i = 8 -> seq
                    [] OTHER -> 0]

\* the decode of read_data: the frame to enqueue, or none for an ignored
\* read type ("else: return")
UsbDecode(usb_data) ==
  LET read_type == usb_data[1]
  IN  IF read_type = _USB_READ_TYPE_8BIT
        THEN RetFrame(DaliFrame(0, 8, usb_data[5], FRAME, Msg("")))
      ELSE IF read_type = _USB_READ_TYPE_16BIT
        THEN RetFrame(DaliFrame(0, 16, usb_data[5] + usb_data[4] * 256, FRAME, Msg("")))
      ELSE IF read_type = _USB_READ_TYPE_24BIT
        THEN RetFrame(DaliFrame(0, 24,
               usb_data[5] + usb_data[4] * 256 + usb_data[3] * 65536, FRAME, Msg("")))
      ELSE IF read_type = _USB_READ_TYPE_32BIT
        THEN RetFrame(DaliFrame(0, 32,
               usb_data[5] + usb_data[4] * 256 + usb_data[3] * 65536
                 + usb_data[2] * 16777216, FRAME, Msg("")))
      ELSE IF read_type = _USB_READ_TYPE_NO_FRAME
        THEN RetFrame(DaliFrame(0, 0, 0, TIMEOUT, Msg("")))
      ELSE IF read_type = _USB_READ_TYPE_INFO
        THEN RetFrame(DaliFrame(0, 0, 0,
               IF usb_data[5] = _USB_STATUS_OK THEN OK
               ELSE IF usb_data[5] = _USB_STATUS_FRAME_ERROR THEN TIMING
               ELSE GENERAL, Msg("")))
      ELSE RetNone

\* sequence numbers the device reports
SeqVals == 1..(MaxTransmits + 1)

\* the input reports the device sends in this model
UsbReports ==
  { Report(_USB_READ_TYPE_8BIT, 0, 0, 0, 255, s) : s \in SeqVals }
  \cup { Report(_USB_READ_TYPE_NO_FRAME, 0, 0, 0, 0, s) : s \in SeqVals }
  \cup { Report(112, 0, 0, 0, 0, s) : s \in SeqVals }

\* errno of a usb.USBError raised by ep_read.read
UsbErrnos == {"ETIMEDOUT", "ENODEV", "EIO"}

\* if e.errno not in (errno.ETIMEDOUT, errno.ENODEV): raise e
UsbErrorPassedOver(e) == e \in {"ETIMEDOUT", "ENODEV"}

(* ------------------------------------------------------------------ *)
(* Python strings: a str is a sequence of one-character strings,       *)
(* indexed from 0 in the source and from 1 here                        *)
(* ------------------------------------------------------------------ *)
Whitespace == {" ", "\t", "\n", "\r"}

RECURSIVE LStrip(_)
LStrip(s) == IF s # <<>> /\ Head(s) \in Whitespace THEN LStrip(Tail(s)) ELSE s

RECURSIVE RStrip(_)
RStrip(s) ==
  IF s # <<>> /\ s[Len(s)] \in Whitespace THEN RStrip(SubSeq(s, 1, Len(s) - 1)) ELSE s

\* str.strip()
Strip(s) == RStrip(LStrip(s))

\* str.find(c): the 0-based index of the first c, -1 when there is none
Find(s, c) ==
  IF \E i \in 1..Len(s) : s[i] = c
    THEN (CHOOSE i \in 1..Len(s) : s[i] = c /\ \A j \in 1..(i - 1) : s[j] # c) - 1
    ELSE -1

\* s[a:b] with Python's clamping and negative indices
Slice(s, a, b) ==
  LET lo == IF a < 0 THEN Max(Len(s) + a, 0) ELSE Min(a, Len(s))
      hi == IF b < 0 THEN Max(Len(s) + b, 0) ELSE Min(b, Len(s))
  IN  IF hi <= lo THEN <<>> ELSE SubSeq(s, lo + 1, hi)

HexDigit ==
  [c \in {"0", "1", "2", "3", "4", "5", "6", "7", "8", "9",
          "a", "b", "c", "d", "e", "f", "A", "B", "C", "D", "E", "F"} |->
     CASE c = "0" -> 0 [] c = "1" -> 1 [] c = "2" -> 2 [] c = "3" -> 3
       [] c = "4" -> 4 [] c = "5" -> 5 [] c = "6" -> 6 [] c = "7" -> 7
       [] c = "8" -> 8 [] c = "9" -> 9
       [] c \in {"a", "A"} -> 10 [] c \in {"b", "B"} -> 11
       [] c \in {"c", "C"} -> 12 [] c \in {"d", "D"} -> 13
       [] c \in {"e", "E"} -> 14 [] c \in {"f", "F"} -> 15]

\* int(s, 16) reads: optional whitespace, an optional sign, an optional
\* 0x prefix, then hex digits that single underscores may separate
IntSign(s) ==
  LET t == Strip(s) IN IF t # <<>> /\ Head(t) = "-" THEN -1 ELSE 1

IntDigits(s) ==
  LET t == Strip(s)
      u == IF t # <<>> /\ Head(t) \in {"+", "-"} THEN Tail(t) ELSE t
      v == IF Len(u) >= 2 /\ u[1] = "0" /\ u[2] \in {"x", "X"}
             THEN (IF Len(u) >= 3 /\ u[3] = "_" THEN SubSeq(u, 4, Len(u))
                   ELSE SubSeq(u, 3, Len(u)))
             ELSE u
  IN  v

\* whether int(s, 16) returns (it raises ValueError otherwise)
IntOk(s) ==
  LET d == IntDigits(s)
  IN  /\ d # <<>>
      /\ d[1] # "_" /\ d[Len(d)] # "_"
      /\ \A i \in 1..Len(d) : d[i] = "_" \/ d[i] \in DOMAIN HexDigit
      /\ \A i \in 1..(Len(d) - 1) : ~(d[i] = "_" /\ d[i + 1] = "_")

RECURSIVE HexValue(_, _)
HexValue(d, acc) ==
  IF d = <<>> THEN acc
  ELSE IF Head(d) = "_" THEN HexValue(Tail(d), acc)
  ELSE HexValue(Tail(d), acc * 16 + HexDigit[Head(d)])

\* the value of int(s, 16) when IntOk(s)
Int16(s) == IntSign(s) * HexValue(IntDigits(s), 0)

(* ------------------------------------------------------------------ *)
(* Serial codec (src/source/serial.py)                                 *)
(* ------------------------------------------------------------------ *)
_MAX_BIT_LENGTH == 32
_TIMEOUT == 129
_BAD_START_BIT_TIMING == 130
_BAD_DATA_BIT_TIMING == 131
_COLLISION_LOOPBACK == 132
_COLLISION_NO_CHANGE == 133
_COLLISION_WRONG_STATE == 134
_SYSTEM_FAILURE == 145
_SYSTEM_RECOVERED == 146
_COMMAND_NOT_PROCESSED == 160
_COMMAND_BAD_ARGUMENT == 161
_QUEUE_IS_FULL == 162
_COMMAND_BAD == 163

\* the table with the test for OK taking in the code of TIMEOUT
get_status_and_last_error_le(length, data, loopback) ==
  IF 0 <= length /\ length <= _MAX_BIT_LENGTH
    THEN (IF loopback THEN <<LOOPBACK, Msg("LOOPBACK FRAME")>>
          ELSE <<FRAME, Msg("NORMAL FRAME")>>)
  ELSE IF length <= _TIMEOUT THEN <<OK, Msg("OK")>>
  ELSE IF length = _TIMEOUT THEN <<TIMEOUT, Msg("TIMEOUT")>>
  ELSE IF length = _BAD_START_BIT_TIMING
    THEN <<TIMING, MsgF("ERROR TIMING: START - BIT: {bit} - TIME: {timer_us} USEC",
                        <<data % 256, (data \div 256) % 1048576>>)>>
  ELSE IF length = _BAD_DATA_BIT_TIMING
    THEN <<TIMING, MsgF("ERRROR TIMING: DATA - BIT: {bit} - TIME: {timer_us} USEC",
                        <<data % 256, (data \div 256) % 1048576>>)>>
  ELSE IF length \in {_COLLISION_LOOPBACK, _COLLISION_NO_CHANGE, _COLLISION_WRONG_STATE}
    THEN <<TIMING, Msg("ERROR: COLLISION DETECTED")>>
  ELSE IF length = _SYSTEM_FAILURE THEN <<FAILURE, Msg("ERROR: SYSTEM FAILURE")>>
  ELSE IF length = _SYSTEM_RECOVERED THEN <<RECOVER, Msg("SYSTEM RECOVER")>>
  ELSE IF length \in {_COMMAND_NOT_PROCESSED, _COMMAND_BAD_ARGUMENT,
                      _QUEUE_IS_FULL, _COMMAND_BAD}
    THEN <<INTERFACE, Msg("ERROR: INTERFACE")>>
  ELSE <<UNDEFINED, MsgF("ERROR: CODE 0x{length:02X}", <<length>>)>>

\* __get_status_and_last_error: <<status, message>>
get_status_and_last_error(length, data, loopback) ==
  IF 0 <= length /\ length <= _MAX_BIT_LENGTH
    THEN (IF loopback THEN <<LOOPBACK, Msg("LOOPBACK FRAME")>>
          ELSE <<FRAME, Msg("NORMAL FRAME")>>)
  ELSE IF length < _TIMEOUT THEN <<OK, Msg("OK")>>
  ELSE IF length = _TIMEOUT THEN <<TIMEOUT, Msg("TIMEOUT")>>
  ELSE IF length = _BAD_START_BIT_TIMING
    THEN <<TIMING, MsgF("ERROR TIMING: START - BIT: {bit} - TIME: {timer_us} USEC",
                        <<data % 256, (data \div 256) % 1048576>>)>>
  ELSE IF length = _BAD_DATA_BIT_TIMING
    THEN <<TIMING, MsgF("ERRROR TIMING: DATA - BIT: {bit} - TIME: {timer_us} USEC",
                        <<data % 256, (data \div 256) % 1048576>>)>>
  ELSE IF length \in {_COLLISION_LOOPBACK, _COLLISION_NO_CHANGE, _COLLISION_WRONG_STATE}
    THEN <<TIMING, Msg("ERROR: COLLISION DETECTED")>>
  ELSE IF length = _SYSTEM_FAILURE THEN <<FAILURE, Msg("ERROR: SYSTEM FAILURE")>>
  ELSE IF length = _SYSTEM_RECOVERED THEN <<RECOVER, Msg("SYSTEM RECOVER")>>
  ELSE IF length \in {_COMMAND_NOT_PROCESSED, _COMMAND_BAD_ARGUMENT,
                      _QUEUE_IS_FULL, _COMMAND_BAD}
    THEN <<INTERFACE, Msg("ERROR: INTERFACE")>>
  ELSE <<UNDEFINED, MsgF("ERROR: CODE 0x{length:02X}", <<length>>)>>

\* the "except ValueError" block of parse: it builds a frame from the
\* locals timestamp, length and data; reading a local that no assignment
\* has bound yet raises UnboundLocalError.  bound is the set of locals
\* assigned before the ValueError.
parse_except(bound, timestamp, length, data) ==
  IF {"timestamp", "length", "data"} \subseteq bound
    THEN RetFrame(DaliFrame(timestamp, length, data, GENERAL, Msg("value error")))
    ELSE RetRaise("UnboundLocalError")

\* DaliSerial.parse(line)
parse(line) ==
  LET start == Find(line, "{") + 1
      end == Find(line, "}")
      payload == Slice(line, start, end)
      ts_text == Slice(payload, 0, 8)
      len_text == Slice(payload, 9, 11)
      data_text == Slice(payload, 12, 20)
  IN  IF ~IntOk(ts_text) THEN parse_except({}, 0, 0, 0)
      ELSE IF Len(payload) <= 8 THEN RetRaise("IndexError")
      ELSE IF ~IntOk(len_text) THEN parse_except({"timestamp"}, Int16(ts_text), 0, 0)
      ELSE IF ~IntOk(data_text)
        THEN parse_except({"timestamp", "length"}, Int16(ts_text), Int16(len_text), 0)
      ELSE LET sm == get_status_and_last_error(
                       Int16(len_text), Int16(data_text), payload[9] = ">")
           IN  RetFrame(DaliFrame(Int16(ts_text), Int16(len_text), Int16(data_text),
                                  sm[1], sm[2]))

\* a well-formed line as the interface sends it, with its line end
Zero6 == <<"0", "0", "0", "0", "0", "0">>
SerialLine(flag, len_text, data_text) ==
  <<"{">> \o Zero6 \o <<"1", "0">> \o <<flag>> \o len_text \o <<" ">>
    \o Zero6 \o data_text \o <<"}", "\r", "\n">>

\* the lines the serial interface sends in this model
SerialLines ==
  { SerialLine(">", <<"1", "0">>, <<"0", "5">>),
    SerialLine("-", <<"1", "0">>, <<"0", "5">>),
    SerialLine(">", <<"1", "0">>, <<"0", "6">>),
    SerialLine(">", <<"0", "8">>, <<"0", "5">>),
    <<"x", "\r", "\n">> }

(* ------------------------------------------------------------------ *)
(* Frames to transmit                                                  *)
(* ------------------------------------------------------------------ *)
TxFrame(length, data, priority, send_twice) ==
  [length |-> length, data |-> data, priority |-> priority, send_twice |-> send_twice]

NoRequest == TxFrame(0, 0, 0, FALSE)

\* the frames the caller hands to the USB driver; a 32 bit frame is one
\* the USB encoder does not support
UsbTxFrames == {TxFrame(16, 261, 1, FALSE), TxFrame(32, 261, 1, TRUE)}

\* frames for the USB encoder on its own: the least and the greatest
\* data of the supported lengths and values between, a data value wider
\* than its length, and lengths the encoder does not support
CodecTxFrames ==
  { TxFrame(8, d, 1, FALSE) : d \in {0, 1, 165, 255} }
  \cup { TxFrame(16, d, 1, FALSE) : d \in {0, 255, 256, 4660, 65535} }
  \cup { TxFrame(24, d, 1, t) : d \in {0, 65535, 65536, 1193046, 16777215},
                                t \in BOOLEAN }
  \cup { TxFrame(8, 511, 1, FALSE) }
  \cup { TxFrame(l, 261, 1, FALSE) : l \in {0, 12, 25, 32} }

\* the frames the caller hands to the serial driver
SerialTxFrames == {TxFrame(16, 5, 1, FALSE), TxFrame(8, 5, 1, TRUE)}

(* ------------------------------------------------------------------ *)
(* USB output reports (src/hid.py, transmit)                           *)
(* ------------------------------------------------------------------ *)
_USB_CMD_SEND == 18
_USB_CTRL_TWICE == 32
_USB_WRITE_TYPE_8BIT == 2
_USB_WRITE_TYPE_16BIT == 3
_USB_WRITE_TYPE_24BIT == 6

\* nothing was written to the device yet
NoReport == [i \in 0..7 |-> 0]

\* a report with the address byte and the opcode byte exchanged
Pack_swapped(command, sequence, control, write_type, ext, address_byte, opcode_byte) ==
  [i \in 0..7 |-> CASE i = 0 -> command
                    [] i = 1 -> sequence
                    [] i = 2 -> control
                    [] i = 3 -> write_type
                    [] i = 4 -> 0
                    [] i = 5 -> ext
                    [] i = 6 -> opcode_byte
                    [] i = 7 -> address_byte]

\* struct.pack("BBBBxBBB" + 56 * "x", ...): bytes 0..7, the rest is padding
Pack(command, sequence, control, write_type, ext, address_byte, opcode_byte) ==
  [i \in 0..7 |-> CASE i = 0 -> command
                    [] i = 1 -> sequence
                    [] i = 2 -> control
                    [] i = 3 -> write_type
                    [] i = 4 -> 0
                    [] i = 5 -> ext
                    [] i = 6 -> address_byte
                    [] i = 7 -> opcode_byte]

\* a transmit that takes a frame of any length
UsbLengthOk_any(frame) == TRUE

\* whether transmit supports the frame's length (it raises otherwise)
UsbLengthOk(frame) == frame.length \in {24, 16, 8}

\* the buffer transmit builds for a frame of a supported length
UsbEncode(frame, sequence) ==
  LET control == IF frame.send_twice THEN _USB_CTRL_TWICE ELSE 0
  IN  IF frame.length = 24
        THEN Pack(_USB_CMD_SEND, sequence, control, _USB_WRITE_TYPE_24BIT,
                  (frame.data \div 65536) % 256, (frame.data \div 256) % 256,
                  frame.data % 256)
      ELSE IF frame.length = 16
        THEN Pack(_USB_CMD_SEND, sequence, control, _USB_WRITE_TYPE_16BIT,
                  0, (frame.data \div 256) % 256, frame.data % 256)
      ELSE Pack(_USB_CMD_SEND, sequence, control, _USB_WRITE_TYPE_8BIT,
                0, 0, frame.data % 256)

\* an increment without the mask
NextSequence_nomask(s) == s + 1

\* self.send_sequence_number = (self.send_sequence_number + 1) & 0xFF
NextSequence(s) == (s + 1) % 256

\* the loop of a blocking transmit left after its first get, whatever was read
TransmitConfirmed_always(received, sent) == TRUE

\* if self.receive_sequence_number >= self.send_sequence_number: return
TransmitConfirmed(received, sent) == received >= sent

(* ------------------------------------------------------------------ *)
(* Serial commands (src/source/serial.py, __built_command_string)      *)
(* ------------------------------------------------------------------ *)
Digits ==
  <<"0", "1", "2", "3", "4", "5", "6", "7", "8", "9", "A", "B", "C", "D", "E", "F">>

\* the digits of n >= 0 in the base, most significant first
RECURSIVE Format(_, _)
Format(n, base) ==
  IF n < base THEN <<Digits[n + 1]>>
  ELSE Format(n \div base, base) \o <<Digits[(n % base) + 1]>>

\* f"{n:X}"
FormatX(n) == IF n < 0 THEN <<"-">> \o Format(-n, 16) ELSE Format(n, 16)

\* f"{n}"
FormatD(n) == IF n < 0 THEN <<"-">> \o Format(-n, 10) ELSE Format(n, 10)

built_command_string(frame, is_query) ==
  IF frame.length = 8
    THEN <<"Y">> \o FormatX(frame.data) \o <<"\r">>
    ELSE <<IF is_query THEN "Q" ELSE "S">> \o FormatD(frame.priority) \o <<" ">>
           \o FormatX(frame.length) \o <<IF frame.send_twice THEN "+" ELSE " ">>
           \o FormatX(frame.data) \o <<"\r">>

\* only a frame wrong in status, data and length counts as a mismatch
LoopbackMismatch_all(loopback, frame) ==
  /\ loopback.status # LOOPBACK
  /\ loopback.data # frame.data
  /\ loopback.length # frame.length

\* the first frame is returned whatever it is
LoopbackMismatch_always(loopback, frame) == TRUE

\* the test of query_reply on the frame it received first
LoopbackMismatch(loopback, frame) ==
  \/ loopback.status # LOOPBACK
  \/ loopback.data # frame.data
  \/ loopback.length # frame.length

(* ------------------------------------------------------------------ *)
(* Lines for DaliSerial.parse on its own                                *)
(* ------------------------------------------------------------------ *)
\* the two hex digits of a length code
Hex2(n) == <<Digits[(n \div 16) + 1], Digits[(n % 16) + 1]>>

\* well-formed lines with every length code, echoed and not echoed, as
\* read_data hands them to parse
WellFormedLines ==
  { Strip(SerialLine(flag, Hex2(code), <<"0", "5">>)) :
      flag \in {">", "-"}, code \in 0..255 }

\* a well-formed line whose data field needs more bits than its length
WideDataLine ==
  <<"{">> \o Zero6 \o <<"1", "0", ">", "0", "8", " ">>
    \o <<"0", "0", "0", "0", "0", "1", "F", "F", "}">>

\* lines without braces, too short, or with a field that is not hex
MalformedLines ==
  { <<"x">>,
    <<"{", "}">>,
    <<"{">> \o Zero6 \o <<"1", "0", "}">>,
    <<"{">> \o Zero6 \o <<"z", "z", ">", "1", "0", " ">> \o Zero6 \o <<"0", "5", "}">>,
    <<"{">> \o Zero6 \o <<"1", "0", ">", "z", "z", " ">> \o Zero6 \o <<"0", "5", "}">>,
    <<"{">> \o Zero6 \o <<"1", "0", ">", "1", "0", " ">> \o Zero6 \o <<"z", "z", "}">>,
    <<"{">> \o Zero6 \o <<"1", "0", ">", "1", "0", " ">> \o Zero6 \o <<"0", "5">>,
    Zero6 \o <<"1", "0", ">", "1", "0", " ">> \o Zero6 \o <<"0", "5", "}">> }

\* the lines handed to parse on its own
ParseLines == WellFormedLines \cup {WideDataLine} \cup MalformedLines

VARIABLES
  driver,                   \* "usb" or "serial": the class of the object
  keep_running,             \* self.keep_running
  queue,                    \* self.queue (FIFO, at most max_queue_size)
  thread,                   \* position of the reader thread
  pending,                  \* frame the reader is putting into the queue
  receive_sequence_number,  \* DaliUsb.receive_sequence_number
  send_sequence_number,     \* DaliUsb.send_sequence_number
  last_transmit,            \* DaliUsb.last_transmit
  usb_out,                  \* the last report written to ep_write
  serial_out,               \* the last command written to the port
  request,                  \* frame argument of transmit / query_reply
  block,                    \* block argument of transmit
  loopback,                 \* local of DaliSerial.query_reply
  pc,                       \* position of the caller thread
  stack,                    \* return labels of the caller's open calls
  timeout,                  \* argument of the running get()
  retval,                   \* value or exception of the last return
  op,                       \* ghost: the API call in progress / last made
  disposed,                 \* usb.util.dispose_resources was called
  nEnq,                     \* ghost: number of enqueues so far
  taken,                    \* ghost: number of dequeues so far
  gets,                     \* ghost: get() returns within the API call
  enq_at_enter,             \* ghost: nEnq when query_reply was called
  after_flush,              \* ghost: the call before this one was flush_queue
  enq_at_flushed,           \* ghost: nEnq when that flush saw the queue empty
  seq_seen_max,             \* ghost: greatest sequence number read in a report
  start_receive,            \* the start_receive argument of the constructor
  read_after_write,         \* ghost: a report was read since transmit wrote last
  line,                     \* local of DaliSerial.read_data / argument of parse
  decoded,                  \* what a decode made on its own handed back
  errno                     \* e.errno of the USBError read_data caught last

\* what the constructor was called with
ctor == <<driver, start_receive>>
engine == <<keep_running, queue, thread, pending>>
usbvars == <<receive_sequence_number, disposed>>
txvars == <<send_sequence_number, last_transmit, usb_out, serial_out>>
args == <<timeout, request, block, loopback>>
ghost == <<op, gets, enq_at_enter, after_flush, enq_at_flushed>>
\* what only the caller thread writes (besides keep_running)
callervars == <<txvars, pc, stack, retval, args, ghost, disposed, taken>>
\* the locals of read_data and the result of a decode made on its own
codec == <<line, decoded, errno>>
vars == <<ctor, engine, usbvars, txvars, pc, stack, retval, args, ghost,
          nEnq, taken, seq_seen_max, read_after_write, codec>>

Alive == thread \in {"loop", "read", "put"}

Init ==
  /\ driver \in {"usb", "serial"}
  /\ start_receive \in BOOLEAN
  /\ keep_running = FALSE
  /\ queue = <<>>
  /\ thread = "none"
  /\ pending = NoFrame
  /\ receive_sequence_number = 0
  /\ send_sequence_number = 1
  /\ last_transmit = None
  /\ usb_out = NoReport
  /\ serial_out = <<>>
  /\ disposed = FALSE
  /\ pc = "init"
  /\ stack = <<>>
  /\ retval = RetNone
  /\ timeout = None
  /\ request = NoRequest
  /\ block = FALSE
  /\ loopback = NoFrame
  /\ op = "__init__"
  /\ gets = 0
  /\ enq_at_enter = 0
  /\ after_flush = FALSE
  /\ enq_at_flushed = 0
  /\ nEnq = 0
  /\ taken = 0
  /\ seq_seen_max = None
  /\ read_after_write = FALSE
  /\ line = <<>>
  /\ decoded = RetNone
  /\ errno = ""

(* ------------------------------------------------------------------ *)
(* The reader thread                                                   *)
(* ------------------------------------------------------------------ *)
\* while self.keep_running:
ReadWorkerLoop ==
  /\ thread = "loop"
  /\ thread' = IF keep_running THEN "read" ELSE "terminated"
  /\ errno' = ""
  /\ UNCHANGED <<ctor, keep_running, queue, pending, receive_sequence_number,
                 callervars, nEnq, seq_seen_max, read_after_write, line, decoded>>

\* DaliUsb.read_data up to queue.put: ep_read.read raises USBError;
\* errno ETIMEDOUT and ENODEV are passed over, any other is raised again
UsbReadError ==
  /\ thread = "read" /\ driver = "usb"
  /\ \E e \in UsbErrnos :
       /\ errno' = e
       /\ thread' = IF UsbErrorPassedOver(e) THEN "loop" ELSE "dead"
  /\ UNCHANGED <<ctor, keep_running, queue, pending, receive_sequence_number,
                 callervars, nEnq, seq_seen_max, read_after_write, line, decoded>>

\* DaliUsb.read_data up to queue.put: ep_read.read returns an empty array
UsbReadEmpty ==
  /\ thread = "read" /\ driver = "usb"
  /\ thread' = "loop"
  /\ UNCHANGED <<ctor, keep_running, queue, pending, receive_sequence_number,
                 callervars, nEnq, seq_seen_max, read_after_write, codec>>

\* DaliUsb.read_data up to queue.put: ep_read.read returns a report
UsbReadReport ==
  /\ thread = "read" /\ driver = "usb"
  /\ nEnq < MaxFrames
  /\ \E usb_data \in UsbReports :
       /\ receive_sequence_number' = usb_data[8]
       /\ seq_seen_max' = Max(seq_seen_max, usb_data[8])
       /\ read_after_write' = TRUE
       /\ IF UsbDecode(usb_data).none
            THEN thread' = "loop" /\ pending' = pending
            ELSE thread' = "put" /\ pending' = UsbDecode(usb_data).frame
  /\ UNCHANGED <<ctor, keep_running, queue, callervars, nEnq, codec>>

\* DaliSerial.read_data up to queue.put: readline or decode raises
SerialReadError ==
  /\ thread = "read" /\ driver = "serial"
  /\ thread' = "dead"
  /\ UNCHANGED <<ctor, keep_running, queue, pending, receive_sequence_number,
                 callervars, nEnq, seq_seen_max, read_after_write, codec>>

\* DaliSerial.read_data up to queue.put: readline returns within the
\* port's timeout; raw is what it read, "" when nothing arrived
SerialReadLine ==
  /\ thread = "read" /\ driver = "serial"
  /\ \E raw \in SerialLines \cup {<<>>} :
       /\ line' = Strip(raw)
       /\ IF Len(line') > 0
            THEN /\ nEnq < MaxFrames
                 /\ IF parse(line').exc # ""
                      THEN thread' = "dead" /\ pending' = pending
                      ELSE thread' = "put" /\ pending' = parse(line').frame
            ELSE thread' = "loop" /\ pending' = pending
  /\ UNCHANGED <<ctor, keep_running, queue, receive_sequence_number,
                 callervars, nEnq, seq_seen_max, read_after_write, decoded, errno>>

\* a queue without a capacity
QueueFull_never(q) == FALSE

\* queue.put(frame) waits while the queue holds maxsize frames
QueueFull(q) == Len(q) >= max_queue_size

\* self.queue.put(frame)
QueuePut ==
  /\ thread = "put"
  /\ ~QueueFull(queue)
  /\ queue' = Append(queue, [pending EXCEPT !.n = nEnq + 1])
  /\ nEnq' = nEnq + 1
  /\ pending' = NoFrame
  /\ thread' = "loop"
  /\ line' = <<>>
  /\ UNCHANGED <<ctor, keep_running, receive_sequence_number, callervars,
                 seq_seen_max, read_after_write, decoded, errno>>

(* ------------------------------------------------------------------ *)
(* The caller thread: calls and returns                                *)
(* ------------------------------------------------------------------ *)
\* what the reader thread writes, and what no step of the caller changes
readervars ==
  <<ctor, thread, pending, receive_sequence_number, nEnq, seq_seen_max,
    read_after_write, codec>>

Return(v) ==
  /\ retval' = v
  /\ IF stack = <<>>
       THEN pc' = "idle" /\ stack' = stack
       ELSE pc' = Head(stack) /\ stack' = Tail(stack)

\* no caller in this code catches an exception of a call it makes
Raise(e) ==
  /\ retval' = RetRaise(e)
  /\ pc' = "idle"
  /\ stack' = <<>>

\* a call of label from the running function, to return to ret
Call(label, ret) ==
  /\ pc' = label
  /\ stack' = <<ret>> \o stack
  /\ retval' = retval

\* an API call with arguments t (timeout), f (frame) and b (block)
\* starts on the idle caller thread
Enter(name, label, stk, t, f, b) ==
  /\ pc = "idle"
  /\ op' = name
  /\ pc' = label
  /\ stack' = stk
  /\ retval' = RetNone
  /\ timeout' = t
  /\ request' = f
  /\ block' = b
  /\ loopback' = NoFrame
  /\ gets' = 0
  /\ enq_at_enter' = IF name = "query_reply" THEN nEnq ELSE 0
  /\ after_flush' = (op = "flush_queue" /\ name = "get")
  /\ enq_at_flushed' = IF op = "flush_queue" /\ name = "get" THEN enq_at_flushed ELSE 0

(* ------------------------------------------------------------------ *)
(* Construction: DaliInterface.__init__ from "if start_receive:"       *)
(* ------------------------------------------------------------------ *)
\* the start_receive that DaliInterface.__init__ is called with: DaliUsb
\* passes its argument on, DaliSerial calls super().__init__() without
\* it, so that the default (True) applies
SuperStartReceive == IF driver = "usb" THEN start_receive ELSE TRUE

\* __start_receive up to thread.start(); the flush follows
StartReceive ==
  /\ pc = "init"
  /\ IF SuperStartReceive /\ ~keep_running
       THEN /\ keep_running' = TRUE
            /\ thread' = "loop"
            /\ pc' = "flush"
            /\ stack' = IF driver = "usb" THEN <<"init_drain">> ELSE <<>>
       ELSE /\ pc' = "init_drain"
            /\ UNCHANGED <<keep_running, thread, stack>>
  /\ UNCHANGED <<ctor, queue, pending, usbvars, txvars, retval, args, ghost,
                 nEnq, taken, seq_seen_max, read_after_write, codec>>

\* DaliUsb.__init__ after super().__init__(): pending messages are read
\* from the endpoint and disregarded until a read raises
UsbInitDrain ==
  /\ pc = "init_drain"
  /\ pc' = "idle"
  /\ UNCHANGED <<readervars, keep_running, queue, taken, txvars, disposed,
                 stack, retval, args, ghost>>

(* ------------------------------------------------------------------ *)
(* flush_queue: while not self.queue.empty(): self.queue.get()         *)
(* (the same loop is written inline in __start_receive of              *)
(* src/source/dali_interface.py)                                       *)
(* ------------------------------------------------------------------ *)
\* a flush loop that never runs its body
QueueEmpty_always(q) == TRUE

\* self.queue.empty(), the test of the flush loops
QueueEmpty(q) == q = <<>>

CallFlushQueue ==
  /\ driver = "usb"
  /\ Enter("flush_queue", "flush", <<>>, None, NoRequest, FALSE)
  /\ UNCHANGED <<readervars, keep_running, queue, taken, txvars, disposed>>

FlushTest ==
  /\ pc = "flush"
  /\ IF QueueEmpty(queue)
       THEN /\ Return(RetNone)
            /\ enq_at_flushed' = IF op = "flush_queue" THEN nEnq ELSE enq_at_flushed
       ELSE pc' = "flush_get" /\ UNCHANGED <<stack, retval, enq_at_flushed>>
  /\ UNCHANGED <<readervars, keep_running, queue, taken, txvars, disposed, args,
                 op, gets, enq_at_enter, after_flush>>

\* self.queue.get() without timeout: waits for a frame
FlushGet ==
  /\ pc = "flush_get"
  /\ queue # <<>>
  /\ queue' = Tail(queue)
  /\ taken' = taken + 1
  /\ pc' = "flush"
  /\ UNCHANGED <<readervars, keep_running, txvars, disposed, stack, retval, args, ghost>>

(* ------------------------------------------------------------------ *)
(* get                                                                 *)
(* ------------------------------------------------------------------ *)
\* the timeouts the caller passes to get: none, and a finite one
Timeouts == {None, 0}

CallGet ==
  /\ \E t \in Timeouts : Enter("get", "get", <<>>, t, NoRequest, FALSE)
  /\ UNCHANGED <<readervars, keep_running, queue, taken, txvars, disposed>>

\* src/dali_interface.py: if not self.keep_running: raise Exception(...)
GetCheck ==
  /\ pc = "get" /\ driver = "usb"
  /\ IF ~keep_running
       THEN Raise("read thread is not running")
       ELSE pc' = "get_wait" /\ UNCHANGED <<stack, retval>>
  /\ UNCHANGED <<readervars, keep_running, queue, taken, txvars, disposed, args, ghost>>

\* src/source/dali_interface.py:
\* if not self.keep_running: logger.error(...)
GetCheckSource ==
  /\ pc = "get" /\ driver = "serial"
  /\ pc' = "get_wait"
  /\ UNCHANGED <<readervars, keep_running, queue, taken, txvars, disposed, stack,
                 retval, args, ghost>>

\* a queue.get that waits for a frame whatever the timeout
GetTimesOut_ignored(t) == FALSE

\* queue.get(block=True, timeout=t) raises queue.Empty on an empty queue
\* once a timeout that is not None has run out
GetTimesOut(t) == t # None

\* a queue that hands out the newest frame
QueueHead_last(q) == q[Len(q)]

\* which frame queue.get hands out
QueueHead(q) == Head(q)

\* what is left in the queue
QueueRest(q) == Tail(q)

\* rx_frame = self.queue.get(block=True, timeout=timeout) and the return
GetWait ==
  /\ pc = "get_wait"
  /\ \/ /\ queue # <<>>
        /\ queue' = QueueRest(queue)
        /\ taken' = taken + 1
        /\ Return(RetFrame(QueueHead(queue)))
     \/ /\ queue = <<>>
        /\ GetTimesOut(timeout)
        /\ Return(RetFrame(TimeoutFrame))
        /\ UNCHANGED <<queue, taken>>
  /\ gets' = gets + 1
  /\ UNCHANGED <<readervars, keep_running, txvars, disposed, args,
                 op, enq_at_enter, after_flush, enq_at_flushed>>

(* ------------------------------------------------------------------ *)
(* close                                                               *)
(* ------------------------------------------------------------------ *)
CallClose ==
  /\ Enter("close", "close", <<>>, None, NoRequest, FALSE)
  /\ UNCHANGED <<readervars, keep_running, queue, taken, txvars, disposed>>

\* where close goes on after DaliInterface.close returned: DaliUsb.close
\* disposes the device, the serial driver inherits close unchanged
AfterBaseClose ==
  IF driver = "usb"
    THEN pc' = "dispose" /\ UNCHANGED <<stack, retval>>
    ELSE Return(RetNone)

\* if not self.keep_running: return / self.keep_running = False
CloseSignal ==
  /\ pc = "close"
  /\ IF ~keep_running
       THEN AfterBaseClose /\ UNCHANGED keep_running
       ELSE keep_running' = FALSE /\ pc' = "close_wait" /\ UNCHANGED <<stack, retval>>
  /\ UNCHANGED <<readervars, queue, taken, txvars, disposed, args, ghost>>

\* a close that does not wait for the reader thread
CloseJoined_nowait(t) == TRUE

\* while self.thread.is_alive(): time.sleep(...)
CloseJoined(t) == t \notin {"loop", "read", "put"}

CloseWait ==
  /\ pc = "close_wait"
  /\ CloseJoined(thread)
  /\ AfterBaseClose
  /\ UNCHANGED <<readervars, keep_running, queue, taken, txvars, disposed, args, ghost>>

\* DaliUsb.close: usb.util.dispose_resources(self.device)
UsbDispose ==
  /\ pc = "dispose"
  /\ disposed' = TRUE
  /\ Return(RetNone)
  /\ UNCHANGED <<readervars, keep_running, queue, taken, txvars, args, ghost>>

(* ------------------------------------------------------------------ *)
(* transmit                                                            *)
(* ------------------------------------------------------------------ *)
TransmitEnter ==
  /\ \E f \in (IF driver = "usb" THEN UsbTxFrames ELSE SerialTxFrames), b \in BOOLEAN :
       Enter("transmit", IF driver = "usb" THEN "tx" ELSE "stx", <<>>, None, f, b)
  /\ UNCHANGED <<readervars, keep_running, queue, taken, txvars, disposed>>

CallTransmit ==
  /\ driver = "usb" => send_sequence_number <= MaxTransmits
  /\ TransmitEnter

\* DaliUsb.transmit up to the first self.get()
UsbTransmit ==
  /\ pc = "tx"
  /\ send_sequence_number' = NextSequence(send_sequence_number)
  /\ IF ~UsbLengthOk(request)
       THEN /\ Raise("DALI frames for the USB device can be 8,16 or 24 bit long")
            /\ UNCHANGED <<usb_out, last_transmit, timeout, read_after_write>>
       ELSE \E bytes_written \in {64, 0} :
              IF bytes_written # 64
                THEN /\ Raise("written {bytes_written} bytes, expected 64.")
                     /\ UNCHANGED <<usb_out, last_transmit, timeout,
                                    read_after_write>>
                ELSE /\ usb_out' = UsbEncode(request, send_sequence_number')
                     /\ read_after_write' = FALSE
                     /\ last_transmit' = request.data
                     /\ IF ~block
                          THEN Return(RetNone) /\ UNCHANGED timeout
                        ELSE IF ~keep_running
                          THEN /\ Raise("receive must be active for blocking call to transmit.")
                               /\ UNCHANGED timeout
                        ELSE Call("get", "tx_test") /\ timeout' = None
  /\ UNCHANGED <<ctor, thread, pending, receive_sequence_number, nEnq,
                 seq_seen_max, codec, keep_running, queue, taken, serial_out,
                 disposed, request, block, loopback, ghost>>

\* if self.receive_sequence_number >= self.send_sequence_number: return
\* and the next self.get() of the loop otherwise
UsbTransmitTest ==
  /\ pc = "tx_test"
  /\ IF TransmitConfirmed(receive_sequence_number, send_sequence_number)
       THEN Return(RetNone)
       ELSE Call("get", "tx_test")
  /\ UNCHANGED <<readervars, keep_running, queue, taken, txvars, disposed, args, ghost>>

\* DaliSerial.transmit
SerialTransmit ==
  /\ pc = "stx"
  /\ serial_out' = built_command_string(request, FALSE)
  /\ IF block
       THEN Call("get", "stx_ret") /\ timeout' = RECEIVE_TIMEOUT
       ELSE Return(RetNone) /\ UNCHANGED timeout
  /\ UNCHANGED <<readervars, keep_running, queue, taken, send_sequence_number,
                 last_transmit, usb_out, disposed, request, block, loopback, ghost>>

\* DaliSerial.transmit: the frame of the blocking get is dropped
SerialTransmitReturn ==
  /\ pc = "stx_ret"
  /\ Return(RetNone)
  /\ UNCHANGED <<readervars, keep_running, queue, taken, txvars, disposed, args, ghost>>

(* ------------------------------------------------------------------ *)
(* query_reply                                                         *)
(* ------------------------------------------------------------------ *)
\* DaliUsb.query_reply starts with self.flush_queue(); DaliSerial.query_reply
\* logs an error when the reader is not running and goes on
CallQueryReply ==
  /\ driver = "usb" => send_sequence_number <= MaxTransmits
  /\ IF driver = "usb"
       THEN \E f \in {TxFrame(16, 261, 1, FALSE)} :
              Enter("query_reply", "flush", <<"qr_transmit">>, None, f, FALSE)
       ELSE \E f \in SerialTxFrames :
              Enter("query_reply", "sqr", <<>>, None, f, FALSE)
  /\ UNCHANGED <<readervars, keep_running, queue, taken, txvars, disposed>>

\* self.transmit(request, True)
UsbQueryTransmit ==
  /\ pc = "qr_transmit"
  /\ block' = TRUE
  /\ Call("tx", "qr_get")
  /\ UNCHANGED <<readervars, keep_running, queue, taken, txvars, disposed,
                 timeout, request, loopback, ghost>>

\* a last get that waits for a frame without a timeout
UsbQueryGet_notimeout ==
  /\ pc = "qr_get"
  /\ pc' = "get"
  /\ timeout' = None
  /\ UNCHANGED <<readervars, keep_running, queue, taken, txvars, disposed,
                 stack, retval, request, block, loopback, ghost>>

\* return self.get(timeout=DaliInterface.RECEIVE_TIMEOUT)
UsbQueryGet ==
  /\ pc = "qr_get"
  /\ pc' = "get"
  /\ timeout' = RECEIVE_TIMEOUT
  /\ UNCHANGED <<readervars, keep_running, queue, taken, txvars, disposed,
                 stack, retval, request, block, loopback, ghost>>

\* while not self.queue.empty(): ... and, the queue seen empty, the
\* write of the command and the first self.get
SerialQueryFlushTest ==
  /\ pc = "sqr"
  /\ IF QueueEmpty(queue)
       THEN /\ serial_out' = built_command_string(request, TRUE)
            /\ Call("get", "sqr_loopback")
            /\ timeout' = RECEIVE_TIMEOUT
       ELSE /\ pc' = "sqr_get"
            /\ UNCHANGED <<serial_out, stack, retval, timeout>>
  /\ UNCHANGED <<readervars, keep_running, queue, taken, send_sequence_number,
                 last_transmit, usb_out, disposed, request, block, loopback, ghost>>

\* self.queue.get() of the flush loop
SerialQueryFlushGet ==
  /\ pc = "sqr_get"
  /\ queue # <<>>
  /\ queue' = Tail(queue)
  /\ taken' = taken + 1
  /\ pc' = "sqr"
  /\ UNCHANGED <<readervars, keep_running, txvars, disposed, stack, retval, args, ghost>>

\* loopback = self.get(...); the test; return loopback or
\* return self.get(timeout=DaliInterface.RECEIVE_TIMEOUT)
SerialQueryLoopback ==
  /\ pc = "sqr_loopback"
  /\ loopback' = retval.frame
  /\ IF LoopbackMismatch(retval.frame, request)
       THEN Return(retval)
       ELSE pc' = "get" /\ UNCHANGED <<stack, retval>>
  /\ timeout' = RECEIVE_TIMEOUT
  /\ UNCHANGED <<readervars, keep_running, queue, taken, txvars, disposed,
                 request, block, ghost>>

(* ------------------------------------------------------------------ *)
(* The specification                                                   *)
(* ------------------------------------------------------------------ *)
Reader ==
  \/ ReadWorkerLoop
  \/ UsbReadError
  \/ UsbReadEmpty
  \/ UsbReadReport
  \/ SerialReadError
  \/ SerialReadLine
  \/ QueuePut

\* the steps inside the constructor and inside an API call
CallerStep ==
  \/ StartReceive
  \/ UsbInitDrain
  \/ FlushTest
  \/ FlushGet
  \/ GetCheck
  \/ GetCheckSource
  \/ GetWait
  \/ CloseSignal
  \/ CloseWait
  \/ UsbDispose
  \/ UsbTransmit
  \/ UsbTransmitTest
  \/ SerialTransmit
  \/ SerialTransmitReturn
  \/ UsbQueryTransmit
  \/ UsbQueryGet
  \/ SerialQueryFlushTest
  \/ SerialQueryFlushGet
  \/ SerialQueryLoopback

\* the API calls the user of the driver makes
ApiCall ==
  \/ CallFlushQueue
  \/ CallGet
  \/ CallClose
  \/ CallTransmit
  \/ CallQueryReply

Next == Reader \/ CallerStep \/ ApiCall

Spec == Init /\ [][Next]_vars

\* Both threads are scheduled as long as they can take a step; the user
\* of the driver need not make another API call.
FairSpec == Spec /\ WF_vars(Reader) /\ WF_vars(CallerStep)

\* A DaliUsb constructed with start_receive=False on which transmit is
\* called any number of times.
SeqNext ==
  \/ driver = "usb" /\ StartReceive /\ ~keep_running'
  \/ UsbInitDrain
  \/ TransmitEnter
  \/ UsbTransmit

SeqSpec == Init /\ [][SeqNext]_vars

\* A second thread of the user calls get(timeout=0) on the same driver
\* and takes the oldest frame; on an empty queue its get returns the
\* TIMEOUT frame and changes nothing.
SecondCallerGet ==
  /\ op # "__init__" \/ pc = "idle"
  /\ driver = "usb" => keep_running
  /\ queue # <<>>
  /\ queue' = QueueRest(queue)
  /\ taken' = taken + 1
  /\ UNCHANGED <<readervars, keep_running, txvars, disposed, pc, stack, retval,
                 args, ghost>>

TwoCallerNext == Next \/ SecondCallerGet

\* the driver shared by two threads of the user
TwoCallerSpec == Init /\ [][TwoCallerNext]_vars

(* ------------------------------------------------------------------ *)
(* The codecs on their own: DaliSerial.parse is a static method that   *)
(* is called with a line; DaliUsb.transmit encodes a frame on a driver *)
(* built with start_receive=False, and the payload bytes it wrote are  *)
(* handed to the decode of read_data as an input report.               *)
(* ------------------------------------------------------------------ *)
\* the input report that carries the payload bytes of the send report
\* out with the read type that matches length
EchoReport(out, length) ==
  Report(CASE length = 8 -> _USB_READ_TYPE_8BIT
           [] length = 16 -> _USB_READ_TYPE_16BIT
           [] length = 24 -> _USB_READ_TYPE_24BIT
           [] OTHER -> 0,
         0, out[5], out[6], out[7], out[1])

\* either a line for parse, or a DaliUsb(start_receive=False) on which
\* transmit(frame) was just called
CodecInit ==
  /\ \/ /\ driver = "serial" /\ line \in ParseLines
        /\ pc = "init" /\ op = "__init__" /\ request = NoRequest
     \/ /\ driver = "usb" /\ line = <<>>
        /\ pc = "tx" /\ op = "transmit" /\ request \in CodecTxFrames
  /\ start_receive = FALSE
  /\ keep_running = FALSE
  /\ queue = <<>>
  /\ thread = "none"
  /\ pending = NoFrame
  /\ receive_sequence_number = 0
  /\ send_sequence_number = 1
  /\ last_transmit = None
  /\ usb_out = NoReport
  /\ serial_out = <<>>
  /\ disposed = FALSE
  /\ stack = <<>>
  /\ retval = RetNone
  /\ timeout = None
  /\ block = FALSE
  /\ loopback = NoFrame
  /\ gets = 0
  /\ enq_at_enter = 0
  /\ after_flush = FALSE
  /\ enq_at_flushed = 0
  /\ nEnq = 0
  /\ taken = 0
  /\ seq_seen_max = None
  /\ read_after_write = FALSE
  /\ decoded = RetNone
  /\ errno = ""

\* DaliSerial.parse(line)
ParseCall ==
  /\ driver = "serial" /\ decoded.none
  /\ decoded' = parse(line)
  /\ UNCHANGED <<ctor, engine, usbvars, txvars, pc, stack, retval, args, ghost,
                 nEnq, taken, seq_seen_max, read_after_write, line, errno>>

\* the decode of read_data on the echo of the report transmit wrote
DeviceEcho ==
  /\ driver = "usb" /\ pc = "idle" /\ decoded.none
  /\ usb_out # NoReport
  /\ decoded' = UsbDecode(EchoReport(usb_out, request.length))
  /\ UNCHANGED <<ctor, engine, usbvars, txvars, pc, stack, retval, args, ghost,
                 nEnq, taken, seq_seen_max, read_after_write, line, errno>>

CodecNext == ParseCall \/ UsbTransmit \/ DeviceEcho

CodecSpec == CodecInit /\ [][CodecNext]_vars

(* ------------------------------------------------------------------ *)
(* Properties                                                          *)
(* ------------------------------------------------------------------ *)

\* C1: get with a finite timeout, called while the reader is running,
\* never raises and never waits without end (its return is enabled
\* whenever it waits); when the queue is empty as the wait ends it returns
\* the TIMEOUT frame that get builds, and any other frame it returns is
\* one an enqueue of the reader produced.
C1_GetWithTimeout ==
  /\ [](pc = "get_wait" /\ timeout # None => ENABLED GetWait)
  /\ [][ /\ (pc = "get" /\ keep_running /\ pc' # pc) => pc' = "get_wait"
         /\ (pc = "get_wait" /\ pc' # pc /\ timeout # None) =>
              /\ retval'.exc = "" /\ ~retval'.none
              /\ queue = <<>> =>
                   (retval'.frame.status = TIMEOUT /\ retval'.frame.n = 0)
              /\ queue # <<>> =>
                   (retval'.frame.n \in 1..nEnq /\ retval'.frame \in {queue[i] : i \in 1..Len(queue)})
       ]_vars

\* a get(timeout=0) returned the TIMEOUT frame while the reader runs
C1_Witness ==
  /\ pc = "idle" /\ op = "get" /\ timeout = 0
  /\ retval.exc = "" /\ retval.frame.status = TIMEOUT /\ retval.frame.n = 0
  /\ keep_running /\ Alive

\* C2: get never goes on to wait on the queue while keep_running is false.
C2_NotRunningIsReported == pc = "get_wait" => keep_running

\* C3: once DaliInterface.close has returned (keep_running is false and
\* the caller is not waiting inside close) the reader thread is not alive
\* and enqueues nothing any more; close on a driver that is not running
\* returns without an exception and leaves the receive engine as it is.
C3_CloseStopsReader ==
  /\ []((~keep_running /\ pc # "close_wait") => ~Alive)
  /\ [][ /\ (~keep_running /\ pc # "close_wait") =>
              (nEnq' = nEnq /\ Len(queue') <= Len(queue))
         /\ (pc = "close" /\ ~keep_running /\ pc' # pc) =>
              /\ retval'.exc = ""
              /\ UNCHANGED <<keep_running, queue, thread, pending, nEnq, taken>>
       ]_vars

\* a second close on a USB driver whose reader enqueued frames and was
\* stopped by the first close
C3_Witness ==
  /\ pc = "dispose" /\ disposed /\ op = "close"
  /\ thread = "terminated" /\ nEnq > 0 /\ ~keep_running

\* C4: a close that waits for the reader thread returns in the end.
C4_CloseReturns == (pc = "close_wait") ~> (pc # "close_wait")

\* C5 as claimed: get(timeout=0) right after flush_queue returns a frame
\* with status TIMEOUT.
C5_FlushThenGetIsTimeout ==
  (pc = "idle" /\ op = "get" /\ after_flush /\ timeout = 0 /\ retval.exc = "")
    => retval.frame.status = TIMEOUT

\* C5 amended: get(timeout=0) right after flush_queue returns the TIMEOUT
\* frame that get builds, or the first frame the reader enqueued after
\* flush_queue saw the queue empty; never a frame enqueued before that.
C5_NoStaleFrame ==
  (pc = "idle" /\ op = "get" /\ after_flush /\ timeout = 0 /\ retval.exc = "")
    => \/ retval.frame.n = 0 /\ retval.frame.status = TIMEOUT
       \/ retval.frame.n = enq_at_flushed + 1

\* flush_queue discarded a frame, and the get(timeout=0) after it
\* returned the TIMEOUT frame while the reader runs
C5_Witness ==
  /\ pc = "idle" /\ op = "get" /\ after_flush /\ timeout = 0
  /\ retval.exc = "" /\ retval.frame.n = 0 /\ retval.frame.status = TIMEOUT
  /\ enq_at_flushed > 0 /\ keep_running /\ Alive

\* C6: the queue holds the frames of consecutive enqueues, oldest first;
\* every removal takes the oldest frame and is made by get or by a flush
\* loop; get returns the frame it removes, unchanged.
C6_Fifo ==
  /\ [](\A i \in 1..Len(queue) : queue[i].n = taken + i)
  /\ [](taken + Len(queue) = nEnq)
  /\ [][ /\ Len(queue') < Len(queue) =>
              /\ queue' = Tail(queue)
              /\ taken' = taken + 1
              /\ pc \in {"get_wait", "flush_get", "sqr_get"}
         /\ (pc = "get_wait" /\ pc' # pc /\ queue # <<>>) =>
              /\ retval' = RetFrame(Head(queue))
              /\ retval'.frame.n = taken + 1
              /\ queue' = Tail(queue)
       ]_vars

\* get returned the second frame enqueued while the third waits
C6_Witness ==
  /\ pc = "idle" /\ op = "get" /\ retval.exc = ""
  /\ retval.frame.n = 2 /\ Len(queue) = 1 /\ queue[1].n = 3

\* C7: serial query_reply whose first frame is not the LOOPBACK of the
\* request returns that frame after one get.
C7_MismatchReturnsFirstFrame ==
  (/\ driver = "serial" /\ op = "query_reply" /\ pc = "idle"
   /\ \/ loopback.status # LOOPBACK
      \/ loopback.data # request.data
      \/ loopback.length # request.length)
    => (retval = RetFrame(loopback) /\ gets = 1)

\* a LOOPBACK frame with the wrong data was returned, a later frame waits
C7_Witness ==
  /\ driver = "serial" /\ op = "query_reply" /\ pc = "idle"
  /\ loopback.status = LOOPBACK /\ loopback.length = request.length
  /\ loopback.data # request.data
  /\ retval = RetFrame(loopback) /\ gets = 1 /\ queue # <<>>

\* C8: serial query_reply whose first frame is the LOOPBACK of the request
\* makes one more get, with RECEIVE_TIMEOUT, and returns its result: the
\* frame enqueued next after the loopback, or the TIMEOUT frame of get;
\* neither frame was enqueued before the call.
C8_MatchReturnsNextFrame ==
  (/\ driver = "serial" /\ op = "query_reply" /\ pc = "idle"
   /\ loopback.status = LOOPBACK
   /\ loopback.data = request.data
   /\ loopback.length = request.length)
    => /\ gets = 2 /\ timeout = RECEIVE_TIMEOUT /\ retval.exc = "" /\ ~retval.none
       /\ loopback.n > enq_at_enter
       /\ \/ retval.frame.n = 0 /\ retval.frame.status = TIMEOUT
          \/ retval.frame.n = loopback.n + 1

\* a frame queued before the call was flushed, the loopback matched and
\* the frame after it was returned
C8_Witness ==
  /\ driver = "serial" /\ op = "query_reply" /\ pc = "idle"
  /\ enq_at_enter > 0 /\ loopback.status = LOOPBACK
  /\ loopback.data = request.data /\ loopback.length = request.length
  /\ gets = 2 /\ retval.frame.n = loopback.n + 1

\* C9 as claimed: the first report written carries sequence number 1 and
\* every later transmit call raises the number by 1 modulo 256.
C9_FirstReportCarriesOne ==
  [][ /\ (usb_out = NoReport /\ usb_out' # NoReport) => usb_out'[1] = 1
      /\ (pc = "tx" /\ pc' # pc) =>
           send_sequence_number' = (send_sequence_number + 1) % 256
    ]_vars

\* C9 amended: send_sequence_number is 1 after construction; every
\* transmit call, also one that raises, first raises it by 1 modulo 256
\* (255 is followed by 0) and the report it writes carries the raised
\* number, so that the first transmit writes 2; nothing else changes it.
C9_SequenceNumber ==
  /\ send_sequence_number = 1
  /\ [][ /\ (pc = "tx" /\ pc' # pc) =>
              /\ send_sequence_number' = (send_sequence_number + 1) % 256
              /\ send_sequence_number' \in 0..255
              /\ usb_out' # usb_out => usb_out'[1] = send_sequence_number'
         /\ ~(pc = "tx" /\ pc' # pc) =>
              UNCHANGED <<send_sequence_number, usb_out>>
         /\ (usb_out = NoReport /\ send_sequence_number = 1 /\ usb_out' # NoReport)
              => usb_out'[1] = 2
       ]_vars

\* the transmit after sequence number 255 wrote a report with number 0
C9_Witness ==
  pc = "idle" /\ op = "transmit" /\ send_sequence_number = 0 /\ usb_out[1] = 0
    /\ usb_out[0] = _USB_CMD_SEND

\* C10: a blocking USB transmit returns only when a report read before
\* carried a sequence number >= send_sequence_number; a transmit with
\* block=False returns from the write, takes nothing from the queue and
\* calls no get.
C10_BlockingTransmit ==
  [][ /\ (pc = "tx_test" /\ pc' # pc /\ pc' # "get") =>
           (retval'.exc = "" /\ gets >= 1 /\ seq_seen_max >= send_sequence_number)
      /\ (pc = "tx" /\ ~block /\ pc' # pc) =>
           (pc' = "idle" /\ queue' = queue /\ taken' = taken /\ gets' = 0)
    ]_vars

\* a blocking transmit returned after its second get
C10_Witness ==
  /\ pc = "idle" /\ op = "transmit" /\ block /\ retval = RetNone
  /\ gets = 2 /\ seq_seen_max >= send_sequence_number

\* C11: DaliUsb.query_reply first flushes the queue until it sees it
\* empty, then calls transmit with block=True, and when transmit has
\* returned makes one get with RECEIVE_TIMEOUT, whose result it returns
\* as it is: the TIMEOUT frame of get when the queue stays empty.
C11_UsbQueryReplyOrder ==
  /\ [](driver = "usb" /\ op = "query_reply" /\ pc = "get_wait" /\ stack = <<>>
          => ENABLED GetWait)
  /\ [][ (driver = "usb" /\ op = "query_reply") =>
           /\ (pc = "flush" /\ pc' \notin {"flush", "flush_get"}) =>
                (pc' = "qr_transmit" /\ queue = <<>> /\ usb_out' = usb_out)
           /\ (pc = "qr_transmit" /\ pc' # pc) =>
                (pc' = "tx" /\ block' /\ request' = request /\ gets = 0)
           /\ (pc' = "qr_get" /\ pc # pc') =>
                (pc = "tx_test" /\ usb_out = UsbEncode(request, send_sequence_number))
           /\ (pc = "qr_get" /\ pc' # pc) =>
                (pc' = "get" /\ stack' = <<>> /\ timeout' = RECEIVE_TIMEOUT
                   /\ timeout' # None)
           /\ (pc = "get_wait" /\ stack = <<>> /\ pc' # pc) =>
                /\ pc' = "idle" /\ gets' = gets + 1
                /\ queue # <<>> => retval' = RetFrame(Head(queue))
                /\ queue = <<>> => retval' = RetFrame(TimeoutFrame)
       ]_vars
  /\ [][ (pc = "idle" /\ pc' # pc /\ op' = "query_reply" /\ driver = "usb") =>
           (pc' = "flush" /\ stack' = <<"qr_transmit">>) ]_vars

\* a USB query_reply returned the TIMEOUT frame of its last get, after
\* the blocking transmit took one frame
C11_Witness ==
  /\ driver = "usb" /\ op = "query_reply" /\ pc = "idle"
  /\ retval = RetFrame(TimeoutFrame) /\ gets = 2 /\ block
  /\ usb_out = UsbEncode(request, send_sequence_number)

\* C12: every query_reply call, on either transport, comes to an end:
\* none of its waits lasts for ever.
C12_QueryReplyEnds == (op = "query_reply" /\ pc # "idle") ~> (pc = "idle")

\* C13: DaliSerial.parse raises on no line; for a line without braces,
\* a line that is too short and a line with a field that is not hex it
\* returns a frame with status GENERAL.
C13_ParseNeverRaises ==
  (driver = "serial" /\ ~decoded.none) =>
    /\ decoded.exc = ""
    /\ line \in MalformedLines => decoded.frame.status = GENERAL

\* C14: for a well-formed line with length code c and echo flag f parse
\* returns a frame of length c whose status is the one the table gives:
\* 0x00-0x20 LOOPBACK when f is ">" and FRAME otherwise, 0x21-0x80 OK,
\* 0x81 TIMEOUT, 0x82-0x86 TIMING, 0x91 FAILURE, 0x92 RECOVER with the
\* message "SYSTEM RECOVER", 0xA0-0xA3 INTERFACE, any other UNDEFINED.
C14_StatusTable ==
  \A c \in 0..255, f \in {">", "-"} :
    (~decoded.none /\ line = Strip(SerialLine(f, Hex2(c), <<"0", "5">>))) =>
      /\ decoded.exc = ""
      /\ decoded.frame.length = c /\ decoded.frame.data = 5
      /\ decoded.frame.timestamp = 16
      /\ decoded.frame.status =
           (IF c <= 32 THEN (IF f = ">" THEN LOOPBACK ELSE FRAME)
            ELSE IF c <= 128 THEN OK
            ELSE IF c = 129 THEN TIMEOUT
            ELSE IF c \in 130..134 THEN TIMING
            ELSE IF c = 145 THEN FAILURE
            ELSE IF c = 146 THEN RECOVER
            ELSE IF c \in 160..163 THEN INTERFACE
            ELSE UNDEFINED)
      /\ c = 146 => decoded.frame.message = Msg("SYSTEM RECOVER")

\* parse read the line with length code 0x92
C14_Witness ==
  /\ line = Strip(SerialLine(">", <<"9", "2">>, <<"0", "5">>))
  /\ ~decoded.none /\ decoded.frame.status = RECOVER
  /\ decoded.frame.message = Msg("SYSTEM RECOVER")

\* C15: the payload bytes transmit writes for a frame of 8, 16 or 24 bits
\* whose data fits in its length decode, as an input report of the
\* matching read type, to a FRAME frame with the same length and data.
C15_UsbRoundTrip ==
  (/\ driver = "usb" /\ ~decoded.none
   /\ request.length \in {8, 16, 24} /\ request.data < 2 ^ request.length) =>
    /\ decoded.exc = ""
    /\ decoded.frame.status = FRAME
    /\ decoded.frame.length = request.length
    /\ decoded.frame.data = request.data

\* a 24 bit frame with three different payload bytes made the round trip
C15_Witness ==
  /\ driver = "usb" /\ ~decoded.none
  /\ request.length = 24 /\ request.data = 1193046
  /\ usb_out[5] = 18 /\ usb_out[6] = 52 /\ usb_out[7] = 86
  /\ decoded.frame.data = 1193046 /\ decoded.frame.length = 24

\* C16: no line the serial reader has read ends the reader thread: while
\* read_data holds a line the thread is alive.
C16_ReaderSurvivesLine ==
  (driver = "serial" /\ line # <<>>) => Alive

\* C17: of the USBErrors of the read only the read timeout is passed
\* over; after ENODEV the reader thread has stopped.
C17_OnlyTimeoutPassedOver ==
  (driver = "usb" /\ errno # "" /\ errno # "ETIMEDOUT") => ~Alive

\* C18: transmit of a frame whose length is not 8, 16 or 24 ends with an
\* exception and writes nothing; every report written is that of a frame
\* of 8, 16 or 24 bits and has the write type of that length.
C18_UnsupportedLengthRaises ==
  [][ /\ (pc = "tx" /\ request.length \notin {8, 16, 24} /\ pc' # pc) =>
           /\ pc' = "idle" /\ retval'.exc # ""
           /\ usb_out' = usb_out /\ last_transmit' = last_transmit
      /\ usb_out' # usb_out =>
           /\ request.length \in {8, 16, 24}
           /\ usb_out'[3] = (CASE request.length = 8 -> 2
                               [] request.length = 16 -> 3
                               [] request.length = 24 -> 6)
    ]_vars

\* transmit of a frame of length 0 raised and wrote no report
C18_Witness ==
  /\ driver = "usb" /\ op = "transmit" /\ pc = "idle"
  /\ request.length = 0 /\ retval.exc # ""
  /\ usb_out = NoReport /\ last_transmit = None

\* C19: every frame parse returns with status FRAME or LOOPBACK has
\* data < 2^length.
C19_DataFitsLength ==
  (driver = "serial" /\ ~decoded.none /\ decoded.exc = ""
     /\ decoded.frame.status \in {FRAME, LOOPBACK}) =>
    decoded.frame.data < 2 ^ decoded.frame.length

\* C20: the flush of the constructor takes no frame from the queue: what
\* the reader thread enqueued is still there, or was handed out by get.
C20_StartupFlushTakesNothing ==
  op = "__init__" => taken = 0

\* C21: a flush loop never waits on an empty queue: whenever flush_queue
\* or the flush of the serial query_reply is at its queue.get(), the
\* queue holds a frame.
C21_FlushNeverWaits ==
  pc \in {"flush_get", "sqr_get"} => queue # <<>>

\* C22: the queue never holds more than max_queue_size frames; on a full
\* queue the reader stays in its put until a frame is removed; an enqueue
\* appends the decoded frame and leaves the queued frames as they are,
\* and the reader leaves its put only by enqueuing the frame it decoded.
C22_BoundedQueue ==
  /\ [](Len(queue) <= max_queue_size)
  /\ []((thread = "put" /\ Len(queue) = max_queue_size) => ~ENABLED QueuePut)
  /\ [][ /\ Len(queue') > Len(queue) =>
              /\ thread = "put" /\ Len(queue) < max_queue_size
              /\ queue' = Append(queue, [pending EXCEPT !.n = nEnq + 1])
              /\ nEnq' = nEnq + 1
         /\ (thread = "put" /\ thread' # "put") =>
              /\ Len(queue') = Len(queue) + 1
              /\ queue'[Len(queue')] = [pending EXCEPT !.n = nEnq + 1]
       ]_vars

\* the reader waits in put on a full queue while a caller is at the
\* queue.get that will make room
C22_Witness ==
  /\ thread = "put" /\ Len(queue) = max_queue_size /\ keep_running
  /\ pc = "get_wait" /\ ~ENABLED QueuePut


\* C23: a blocking transmit of the USB driver returns only after the device
\* confirmed this transmit: when transmit(block=True) returns without an
\* exception, a report was read after the write of this transmit, so the
\* receive_sequence_number it compared is not one left over from before.
C23_ConfirmedByLaterReport ==
  [][(pc = "tx_test" /\ pc' \notin {"tx_test", "get"}) => read_after_write]_vars


\* C24: once the constructor has returned, keep_running is true only while
\* the reader thread is alive: a reader that ended, by close or by an
\* exception that left read_data, does not leave keep_running true.
C24_RunningMeansAlive ==
  (keep_running /\ ~(op = "__init__" /\ pc # "idle")) => Alive


\* C25: a driver constructed with start_receive=False has no reader
\* thread and keep_running stays false, and one constructed with
\* start_receive=True has its reader started by the constructor, for the
\* USB and for the serial driver.
C25_StartReceiveObeyed ==
  /\ ~start_receive => (thread = "none" /\ ~keep_running)
  /\ (start_receive /\ pc # "init") => thread # "none"

====
